---------------------------- MODULE Spec2Model ----------------------------
(***************************************************************************)
(* Model of the AI voice detection service: the three HTTP handlers        *)
(* (api/index.py, api/voice-detection.py, api/voicedetection.py), the API  *)
(* key check (lib/auth.py), Base64 decoding and feature extraction         *)
(* (lib/audio_processor.py) and the classifier (lib/voice_classifier.py).  *)
(*                                                                         *)
(* Numbers.  Python floats are modelled as exact fixed-point rationals:    *)
(*   feature values and thresholds   in units of 1/FeatScale   (1/100)     *)
(*   partial scores                  in units of 1/ScoreScale  (1/3000)    *)
(*   weights                         in units of 1/WeightScale (1/20)      *)
(*   the AI score                    in units of 1/AiScale     (1/60000)   *)
(*   the confidence before rounding  in units of 1/ConfScale   (1/6000000) *)
(*   confidenceScore (2 decimals)    in units of 1/100                     *)
(* Every division the code performs on the values of the model is exact    *)
(* in these units.                                                         *)
(***************************************************************************)
EXTENDS Integers, Sequences, FiniteSets, TLC

VARIABLES
    THRESHOLDS,    \* voice_classifier.THRESHOLDS (module-level dict)
    EXPLANATIONS,  \* voice_classifier.EXPLANATIONS (module-level dict)
    environ,       \* os.environ: the API_KEY entry ("<unset>" when absent)
    numpy_nep50,   \* the installed NumPy promotes uint8 scalars as NumPy >= 2 does
    request,       \* request[c]: the HTTP request (or direct call) c
    pc,            \* pc[c]: where call c stands
    frame,         \* frame[c]: the local variables of classify_voice in call c
    failure,       \* failure[c]: the exception in flight in call c, "" when none
    response       \* response[c]: the HTTP response written for c

vars == <<THRESHOLDS, EXPLANATIONS, environ, numpy_nep50, request, pc, frame,
          failure, response>>

-----------------------------------------------------------------------------
(* Bounds of the model *)

\* Number of classify_voice calls that run concurrently in SpecConc.
MaxCalls == 2

-----------------------------------------------------------------------------
(* Fixed-point units *)

FeatScale == 10 * 10
ScoreScale == 30 * FeatScale
WeightScale == 4 * 5
AiScale == ScoreScale * WeightScale
ConfScale == AiScale * 100

Min(a, b) == IF a <= b THEN a ELSE b
Max(a, b) == IF a >= b THEN a ELSE b
Abs(a) == IF a >= 0 THEN a ELSE -a

\* Python's None where a string is expected (a header or a JSON field absent).
None == "<None>"

-----------------------------------------------------------------------------
(* lib/voice_classifier.py: the module-level tables *)

THRESHOLDS_init ==
    [spectral_flatness_low |-> 15,
     pitch_stability_high  |-> 70,
     micro_variation_low   |-> 30,
     frame_variation_low   |-> 15,
     zcr_low               |-> 5]

EXPLANATIONS_init ==
    [ai_spectral     |-> "Synthetic spectral patterns detected - unnatural tonal quality typical of AI synthesis",
     ai_stability    |-> "Unnaturally stable pitch and rhythm patterns inconsistent with human speech",
     ai_smooth       |-> "Audio is too smooth at micro level - lacks natural human voice tremors and breathiness",
     ai_consistent   |-> "Frame-to-frame energy is suspiciously consistent - typical of AI-generated audio",
     ai_combined     |-> "Multiple AI indicators: synthetic spectrum, unnatural stability, and lack of micro-variation",
     human_natural   |-> "Natural speech patterns with expected variation, micro-tremors, and spectral complexity",
     human_variation |-> "High frame-to-frame variation and spectral complexity consistent with human voice",
     human_unstable  |-> "Natural pitch instability and breathing patterns detected",
     uncertain       |-> "Audio characteristics are ambiguous - could be heavily processed human or high-quality AI"]

\* The keys of the indicators dict, in insertion order.
IndicatorKeys ==
    <<"low_flatness", "high_stability", "low_micro_var", "low_frame_var", "low_zcr">>

\* features.get(key, default)
Get(features, key, default) ==
    IF key \in DOMAIN features THEN features[key] ELSE default

\* The weights appended after each analysis, in units of 1/WeightScale.
Weights == <<5, 5, 4, 3, 3>>

RECURSIVE SumSeq(_)
SumSeq(s) == IF s = <<>> THEN 0 ELSE Head(s) + SumSeq(Tail(s))

\* sum(s * w for s, w in zip(scores, weights))
DotProduct(scores, weights) ==
    SumSeq([i \in 1..Min(Len(scores), Len(weights)) |-> scores[i] * weights[i]])

\* FlatnessAnalysis without the min(1.0, flatness_score) cap.
FlatnessAnalysis_uncapped(features, T) ==
    LET flatness == Get(features, "spectral_flatness", 50)
    IN  IF flatness < T.spectral_flatness_low
        THEN <<TRUE, ScoreScale - (ScoreScale * flatness) \div T.spectral_flatness_low>>
        ELSE <<FALSE, Max(0, (3 * ScoreScale) \div 10 - (flatness * 3 * ScoreScale) \div (10 * FeatScale))>>

\* 1. Spectral flatness analysis: <<indicator, partial score>>
FlatnessAnalysis(features, T) ==
    LET flatness == Get(features, "spectral_flatness", 50)
    IN  IF flatness < T.spectral_flatness_low
        THEN <<TRUE, Min(ScoreScale,
                         ScoreScale - (ScoreScale * flatness) \div T.spectral_flatness_low)>>
        ELSE <<FALSE, Max(0, (3 * ScoreScale) \div 10 - (flatness * 3 * ScoreScale) \div (10 * FeatScale))>>

\* StabilityAnalysis with the comparison stability >= threshold.
StabilityAnalysis_inclusive(features, T) ==
    LET stability == Get(features, "pitch_stability", 50)
    IN  IF stability >= T.pitch_stability_high
        THEN <<TRUE, Min(ScoreScale,
                         (ScoreScale * (stability - T.pitch_stability_high))
                             \div (FeatScale - T.pitch_stability_high))>>
        ELSE <<FALSE, 0>>

\* 2. Pitch stability analysis
StabilityAnalysis(features, T) ==
    LET stability == Get(features, "pitch_stability", 50)
    IN  IF stability > T.pitch_stability_high
        THEN <<TRUE, Min(ScoreScale,
                         (ScoreScale * (stability - T.pitch_stability_high))
                             \div (FeatScale - T.pitch_stability_high))>>
        ELSE <<FALSE, 0>>

\* 3. Micro-variation analysis
MicroAnalysis(features, T) ==
    LET micro_var == Get(features, "micro_variation", 50)
    IN  IF micro_var < T.micro_variation_low
        THEN <<TRUE, Min(ScoreScale,
                         ScoreScale - (ScoreScale * micro_var) \div T.micro_variation_low)>>
        ELSE <<FALSE, Max(0, (3 * ScoreScale) \div 10 - (micro_var * 3 * ScoreScale) \div (10 * FeatScale))>>

\* 4. Frame variation analysis
FrameAnalysis(features, T) ==
    LET frame_var == Get(features, "frame_variation", 50)
    IN  IF frame_var < T.frame_variation_low
        THEN <<TRUE, Min(ScoreScale,
                         ScoreScale - (ScoreScale * frame_var) \div T.frame_variation_low)>>
        ELSE <<FALSE, 0>>

\* 5. Zero-crossing rate analysis
ZcrAnalysis(features, T) ==
    LET zcr == Get(features, "zero_crossing_rate", 10)
    IN  IF zcr < T.zcr_low
        THEN <<TRUE, (6 * ScoreScale) \div 10>>
        ELSE <<FALSE, 0>>

\* The five analyses in the order the code runs them.
Analyses(features, T) ==
    <<FlatnessAnalysis(features, T), StabilityAnalysis(features, T),
      MicroAnalysis(features, T), FrameAnalysis(features, T), ZcrAnalysis(features, T)>>

\* The list `scores` after the five analyses.
PartialScores(features, T) ==
    [i \in 1..5 |-> Analyses(features, T)[i][2]]

\* The dict `indicators` after the five analyses.
Indicators(features, T) ==
    [k \in {IndicatorKeys[i] : i \in 1..5} |->
        \E i \in 1..5 : IndicatorKeys[i] = k /\ Analyses(features, T)[i][1]]

\* sum(1 for v in indicators.values() if v)
ActiveCount(indicators) ==
    Cardinality({k \in DOMAIN indicators : indicators[k]})

\* weighted_score before the adjustment, in units of 1/AiScale.
WeightedScore(features, T) ==
    LET total_weight == SumSeq(Weights)
    IN  (DotProduct(PartialScores(features, T), Weights) * WeightScale) \div total_weight

\* AdjustScore without the penalty for no active indicator.
AdjustScore_nopenalty(weighted_score, active_count) ==
    IF active_count >= 3
    THEN Min(AiScale, weighted_score + (15 * AiScale) \div 100)
    ELSE weighted_score

\* AdjustScore with the boost given from 2 active indicators on.
AdjustScore_two(weighted_score, active_count) ==
    IF active_count >= 2
    THEN Min(AiScale, weighted_score + (15 * AiScale) \div 100)
    ELSE IF active_count = 0
         THEN Max(0, weighted_score - (10 * AiScale) \div 100)
         ELSE weighted_score

\* AdjustScore with the penalty subtracted without the floor at 0.
AdjustScore_unfloored(weighted_score, active_count) ==
    IF active_count >= 3
    THEN Min(AiScale, weighted_score + (15 * AiScale) \div 100)
    ELSE IF active_count = 0
         THEN weighted_score - (10 * AiScale) \div 100
         ELSE weighted_score

\* The adjustment by the number of active indicators.
AdjustScore(weighted_score, active_count) ==
    IF active_count >= 3
    THEN Min(AiScale, weighted_score + (15 * AiScale) \div 100)
    ELSE IF active_count = 0
         THEN Max(0, weighted_score - (10 * AiScale) \div 100)
         ELSE weighted_score

\* calculate_ai_probability(features): <<weighted_score, indicators>>
calculate_ai_probability(features, T) ==
    LET indicators == Indicators(features, T)
    IN  <<AdjustScore(WeightedScore(features, T), ActiveCount(indicators)), indicators>>

\* generate_ai_explanation testing low_flatness before high_stability.
generate_ai_explanation_reordered(indicators, E) ==
    LET active == {k \in DOMAIN indicators : indicators[k]}
    IN  IF Cardinality(active) >= 3 THEN E.ai_combined
        ELSE IF "low_flatness" \in active THEN E.ai_spectral
        ELSE IF "high_stability" \in active THEN E.ai_stability
        ELSE IF "low_micro_var" \in active THEN E.ai_smooth
        ELSE IF "low_frame_var" \in active THEN E.ai_consistent
        ELSE E.ai_combined

\* generate_ai_explanation(indicators, score)
generate_ai_explanation(indicators, E) ==
    LET active == {k \in DOMAIN indicators : indicators[k]}
    IN  IF Cardinality(active) >= 3 THEN E.ai_combined
        ELSE IF "high_stability" \in active THEN E.ai_stability
        ELSE IF "low_flatness" \in active THEN E.ai_spectral
        ELSE IF "low_micro_var" \in active THEN E.ai_smooth
        ELSE IF "low_frame_var" \in active THEN E.ai_consistent
        ELSE E.ai_combined

\* generate_human_explanation(indicators, score)
generate_human_explanation(indicators, E) ==
    LET active == {k \in DOMAIN indicators : indicators[k]}
    IN  IF Cardinality(active) = 0 THEN E.human_natural
        ELSE IF "high_stability" \notin active THEN E.human_unstable
        ELSE E.human_variation

\* round(confidence, 2): to the nearest hundredth, ties to even.
Round2(confidence) ==
    LET unit == ConfScale \div 100
        q    == confidence \div unit
        rem  == confidence % unit
    IN  IF 2 * rem > unit THEN q + 1
        ELSE IF 2 * rem < unit THEN q
        ELSE IF q % 2 = 0 THEN q ELSE q + 1

\* Decision with the HUMAN branch's confidence taken on the AI side of 0.5:
\* 0.5 + (ai_score - 0.5) * 0.98 instead of 0.5 + (0.5 - ai_score) * 0.98.
Decision_signslip(ai_score, indicators, E) ==
    IF ai_score >= (55 * AiScale) \div 100
    THEN [classification |-> "AI_GENERATED",
          confidence     |-> Min((99 * ConfScale) \div 100,
                                 ConfScale \div 2 + (ai_score - AiScale \div 2) * 98),
          explanation    |-> generate_ai_explanation(indicators, E)]
    ELSE IF ai_score <= (45 * AiScale) \div 100
    THEN [classification |-> "HUMAN",
          confidence     |-> Min((99 * ConfScale) \div 100,
                                 ConfScale \div 2 + (ai_score - AiScale \div 2) * 98),
          explanation    |-> generate_human_explanation(indicators, E)]
    ELSE [classification |-> IF ai_score > AiScale \div 2 THEN "AI_GENERATED" ELSE "HUMAN",
          confidence     |-> ConfScale \div 2 + Abs(ai_score - AiScale \div 2) * 50,
          explanation    |-> E.uncertain]

\* Decision with the label of the band taken by ai_score >= 0.5.
Decision_inclusive(ai_score, indicators, E) ==
    IF ai_score >= (55 * AiScale) \div 100
    THEN [classification |-> "AI_GENERATED",
          confidence     |-> Min((99 * ConfScale) \div 100,
                                 ConfScale \div 2 + (ai_score - AiScale \div 2) * 98),
          explanation    |-> generate_ai_explanation(indicators, E)]
    ELSE IF ai_score <= (45 * AiScale) \div 100
    THEN [classification |-> "HUMAN",
          confidence     |-> Min((99 * ConfScale) \div 100,
                                 ConfScale \div 2 + (AiScale \div 2 - ai_score) * 98),
          explanation    |-> generate_human_explanation(indicators, E)]
    ELSE [classification |-> IF ai_score >= AiScale \div 2 THEN "AI_GENERATED" ELSE "HUMAN",
          confidence     |-> ConfScale \div 2 + Abs(ai_score - AiScale \div 2) * 50,
          explanation    |-> E.uncertain]

\* The decision of classify_voice on ai_score: the three branches.
Decision(ai_score, indicators, E) ==
    IF ai_score >= (55 * AiScale) \div 100
    THEN [classification |-> "AI_GENERATED",
          confidence     |-> Min((99 * ConfScale) \div 100,
                                 ConfScale \div 2 + (ai_score - AiScale \div 2) * 98),
          explanation    |-> generate_ai_explanation(indicators, E)]
    ELSE IF ai_score <= (45 * AiScale) \div 100
    THEN [classification |-> "HUMAN",
          confidence     |-> Min((99 * ConfScale) \div 100,
                                 ConfScale \div 2 + (AiScale \div 2 - ai_score) * 98),
          explanation    |-> generate_human_explanation(indicators, E)]
    ELSE [classification |-> IF ai_score > AiScale \div 2 THEN "AI_GENERATED" ELSE "HUMAN",
          confidence     |-> ConfScale \div 2 + Abs(ai_score - AiScale \div 2) * 50,
          explanation    |-> E.uncertain]

\* The dict classify_voice returns.
ResultDict(decision) ==
    [classification  |-> decision.classification,
     confidenceScore |-> Round2(decision.confidence),
     explanation     |-> decision.explanation]

-----------------------------------------------------------------------------
(* lib/audio_processor.py                                                  *)
(*                                                                         *)
(* A Base64 text is modelled by what base64.b64decode (validate=False)     *)
(* reads of it:                                                            *)
(*   sextets  the values (0..63) of its first alphabet characters, at most *)
(*            HeadChars of them;                                           *)
(*   more     the number of alphabet characters after those;               *)
(*   pad      the number of '=' characters that end it;                    *)
(*   junk     the number of characters outside the alphabet (discarded);   *)
(*   signal   the spectral measurements of the audio the text carries.     *)
(* The decoded bytes are modelled by their length, their first bytes (the  *)
(* bytes decoded from `sextets`) and the same signal.                      *)
(***************************************************************************)

\* The alphabet characters of a text that the model keeps one by one.
HeadChars == 4 * 4

Byte == 0..255

\* Byte j (from 1) of the bytes that a sequence of sextets decodes to.
DecodedByte(s, j) ==
    LET q == (j - 1) \div 3
        r == (j - 1) % 3
    IN  CASE r = 0 -> s[4 * q + 1] * 4 + s[4 * q + 2] \div 16
          [] r = 1 -> (s[4 * q + 2] % 16) * 16 + s[4 * q + 3] \div 4
          [] r = 2 -> (s[4 * q + 3] % 4) * 64 + s[4 * q + 4]

\* The number of bytes that n alphabet characters decode to.
DecodedLen(n) ==
    3 * (n \div 4) + (CASE n % 4 = 0 -> 0 [] n % 4 = 1 -> 0 [] n % 4 = 2 -> 1 [] n % 4 = 3 -> 2)

\* binascii.a2b_base64 accepts the text: the data characters left over after
\* the last complete quad are 0, or 2 followed by "==", or 3 followed by "=".
B64WellFormed(text) ==
    LET n == Len(text.sextets) + text.more
    IN  \/ n % 4 = 0
        \/ n % 4 = 2 /\ text.pad >= 2
        \/ n % 4 = 3 /\ text.pad >= 1

\* The exception base64.b64decode raises on a text it rejects.
B64Error(text) ==
    LET n == Len(text.sextets) + text.more
    IN  IF n % 4 = 1
        THEN [type |-> "binascii.Error",
              text |-> "Invalid base64-encoded string: number of data characters cannot be 1 more than a multiple of 4"]
        ELSE [type |-> "binascii.Error", text |-> "Incorrect padding"]

\* decode_base64_audio(audio_base64), for a text b64decode accepts.
decode_base64_audio(text) ==
    LET n == Len(text.sextets) + text.more
    IN  [len    |-> DecodedLen(n),
         head   |-> [j \in 1..DecodedLen(Len(text.sextets)) |-> DecodedByte(text.sextets, j)],
         signal |-> text.signal]

\* x & y on non-negative integers.
RECURSIVE BitAnd(_, _)
BitAnd(x, y) ==
    IF x = 0 \/ y = 0 THEN 0
    ELSE (x % 2) * (y % 2) + 2 * BitAnd(x \div 2, y \div 2)

\* x | y on non-negative integers.
RECURSIVE BitOr(_, _)
BitOr(x, y) ==
    IF x = 0 THEN y
    ELSE IF y = 0 THEN x
    ELSE Max(x % 2, y % 2) + 2 * BitOr(x \div 2, y \div 2)

RECURSIVE Pow2(_)
Pow2(k) == IF k = 0 THEN 1 ELSE 2 * Pow2(k - 1)

\* x << k.  byte_array[i] & 0x7F is a numpy.uint8 scalar and k a Python int:
\* NumPy >= 2 keeps the result in uint8 (a shift by 8 or more gives 0, the
\* bits shifted out are lost); older NumPy promotes to a 64-bit integer.
ShiftLeft(x, k, nep50) ==
    IF nep50
    THEN IF k >= 8 THEN 0 ELSE (x * Pow2(k)) % 256
    ELSE x * Pow2(k)

\* 10 + size, in uint8 (wrapping) under NumPy >= 2.
AddOffset(size, nep50) ==
    IF nep50 THEN (10 + size) % 256 ELSE 10 + size

\* The size field of the ID3v2 header as the code computes it.
Id3Size(b, nep50) ==
    BitOr(BitOr(BitOr(ShiftLeft(BitAnd(b[7], 127), 21, nep50),
                      ShiftLeft(BitAnd(b[8], 127), 14, nep50)),
                ShiftLeft(BitAnd(b[9], 127), 7, nep50)),
          BitAnd(b[10], 127))

\* The offset parse_mp3_to_samples skips.
Id3Offset(audio_bytes, nep50) ==
    IF /\ audio_bytes.len >= 3
       /\ audio_bytes.head[1] = 73 /\ audio_bytes.head[2] = 68 /\ audio_bytes.head[3] = 51
    THEN IF audio_bytes.len >= 10
         THEN AddOffset(Id3Size(audio_bytes.head, nep50), nep50)
         ELSE 0
    ELSE 0

\* parse_mp3_to_samples(audio_bytes): the samples' count, the first samples
\* (those of the known bytes that remain, in units of 1/128) and the signal.
parse_mp3_to_samples(audio_bytes, nep50) ==
    LET offset == Id3Offset(audio_bytes, nep50)
        kept   == IF offset >= Len(audio_bytes.head) THEN <<>>
                  ELSE SubSeq(audio_bytes.head, offset + 1, Len(audio_bytes.head))
    IN  [len    |-> Max(0, audio_bytes.len - offset),
         head   |-> [i \in 1..Len(kept) |-> kept[i] - 128],
         signal |-> audio_bytes.signal]

\* get_default_features(features)
get_default_features(features) ==
    [k \in DOMAIN features \cup
           {"zero_crossing_rate", "amplitude_variance", "spectral_centroid",
            "spectral_flatness", "spectral_rolloff", "frame_variation",
            "pitch_stability", "micro_variation"} |->
        CASE k = "zero_crossing_rate" -> 10
          [] k = "amplitude_variance" -> 10
          [] k = "spectral_centroid"  -> 30
          [] k = "spectral_flatness"  -> 50
          [] k = "spectral_rolloff"   -> 50
          [] k = "frame_variation"    -> 50
          [] k = "pitch_stability"    -> 50
          [] k = "micro_variation"    -> 50
          [] OTHER -> features[k]]

\* calculate_frame_variation(samples): 0.5 below two frames of 256 samples.
calculate_frame_variation(samples) ==
    IF samples.len < 256 * 2 THEN 50 ELSE samples.signal.frame_variation

\* calculate_pitch_stability(samples): 0.5 below 1000 samples.
calculate_pitch_stability(samples) ==
    IF samples.len < 1000 THEN 50 ELSE samples.signal.pitch_stability

\* calculate_micro_variation(samples): 0.5 below 100 samples.
calculate_micro_variation(samples) ==
    IF samples.len < 100 THEN 50 ELSE samples.signal.micro_variation

\* extract_audio_features without the check of len(samples) < 500.
extract_audio_features_unchecked(audio_bytes, nep50) ==
    LET features == [k \in {"byte_length"} |-> audio_bytes.len]
        samples  == parse_mp3_to_samples(audio_bytes, nep50)
    IN  IF audio_bytes.len < 1000 THEN get_default_features(features)
        ELSE [k \in {"byte_length", "zero_crossing_rate", "amplitude_variance",
                     "spectral_centroid", "spectral_flatness", "spectral_rolloff",
                     "frame_variation", "pitch_stability", "micro_variation"} |->
                CASE k = "byte_length"        -> audio_bytes.len
                  [] k = "zero_crossing_rate" -> samples.signal.zero_crossing_rate
                  [] k = "amplitude_variance" -> samples.signal.amplitude_variance
                  [] k = "spectral_centroid"  -> samples.signal.spectral_centroid
                  [] k = "spectral_flatness"  -> samples.signal.spectral_flatness
                  [] k = "spectral_rolloff"   -> samples.signal.spectral_rolloff
                  [] k = "frame_variation"    -> calculate_frame_variation(samples)
                  [] k = "pitch_stability"    -> calculate_pitch_stability(samples)
                  [] k = "micro_variation"    -> calculate_micro_variation(samples)]

\* extract_audio_features(audio_bytes)
extract_audio_features(audio_bytes, nep50) ==
    LET features == [k \in {"byte_length"} |-> audio_bytes.len]
        samples  == parse_mp3_to_samples(audio_bytes, nep50)
    IN  IF audio_bytes.len < 1000 THEN get_default_features(features)
        ELSE IF samples.len < 500 THEN get_default_features(features)
        ELSE [k \in {"byte_length", "zero_crossing_rate", "amplitude_variance",
                     "spectral_centroid", "spectral_flatness", "spectral_rolloff",
                     "frame_variation", "pitch_stability", "micro_variation"} |->
                CASE k = "byte_length"        -> audio_bytes.len
                  [] k = "zero_crossing_rate" -> samples.signal.zero_crossing_rate
                  [] k = "amplitude_variance" -> samples.signal.amplitude_variance
                  [] k = "spectral_centroid"  -> samples.signal.spectral_centroid
                  [] k = "spectral_flatness"  -> samples.signal.spectral_flatness
                  [] k = "spectral_rolloff"   -> samples.signal.spectral_rolloff
                  [] k = "frame_variation"    -> calculate_frame_variation(samples)
                  [] k = "pitch_stability"    -> calculate_pitch_stability(samples)
                  [] k = "micro_variation"    -> calculate_micro_variation(samples)]

-----------------------------------------------------------------------------
(* lib/auth.py *)

\* get_api_key(): os.environ.get("API_KEY", "sk_test_123456789")
get_api_key(env) == IF env = "<unset>" THEN "sk_test_123456789" ELSE env

\* validate_api_key(api_key)
validate_api_key(api_key, env) ==
    IF api_key = None \/ api_key = "" THEN FALSE ELSE api_key = get_api_key(env)

-----------------------------------------------------------------------------
(* The handlers' responses *)

NoResponse == [status |-> 0]

\* A JSON error body with its HTTP status.
ErrorResponse(code, message) ==
    [status |-> code, body |-> [status |-> "error", message |-> message]]

\* FastAPI's answer to a body that does not parse into VoiceDetectionRequest.
UnprocessableResponse ==
    [status |-> 422, body |-> [status |-> "unprocessable", message |-> "<pydantic validation errors>"]]

\* The 200 body every handler builds from the dict classify_voice returned.
SuccessResponse(language, result) ==
    [status |-> 200,
     body   |-> [status          |-> "success",
                 language        |-> language,
                 classification  |-> result.classification,
                 confidenceScore |-> result.confidenceScore,
                 explanation     |-> result.explanation]]

UnauthorizedResponse == ErrorResponse(401, "Invalid API key or malformed request")

valid_languages == {"Tamil", "English", "Hindi", "Malayalam", "Telugu"}

InvalidLanguageResponse ==
    ErrorResponse(400, "Invalid language. Must be one of: Tamil, English, Hindi, Malayalam, Telugu")

InvalidFormatResponse == ErrorResponse(400, "audioFormat must be mp3")

MissingFieldsResponse ==
    ErrorResponse(400, "Missing required fields: language, audioFormat, audioBase64")

NoFailure == [type |-> "", text |-> ""]

\* `not v` for a header or a JSON string field.
Falsy(v) == v = None \/ v = ""

\* `not audio_base64`: the field is absent or the empty string.
TextFalsy(t) ==
    t.kind = "None" \/ Len(t.sextets) + t.more + t.pad + t.junk = 0

\* The checks of language and audioFormat, which every handler makes in this
\* order: the response of the first that fails, NoResponse when both pass.
LanguageFormatChecks(req) ==
    IF req.language \notin valid_languages THEN InvalidLanguageResponse
    ELSE IF req.audioFormat # "mp3" THEN InvalidFormatResponse
    ELSE NoResponse

\* The check of the required fields and then of language and audioFormat, as
\* do_POST (voice-detection.py) and catch_all (voicedetection.py) make them.
FieldChecks(req) ==
    IF Falsy(req.language) \/ Falsy(req.audioFormat) \/ TextFalsy(req.audioBase64)
    THEN MissingFieldsResponse
    ELSE LanguageFormatChecks(req)

\* The exception json.loads / data.get raises in do_POST, NoFailure when none.
do_POST_parse(req) ==
    CASE req.body_kind = "invalid_json" ->
            [type |-> "json.JSONDecodeError", text |-> "Expecting value: line 1 column 1 (char 0)"]
      [] req.body_kind = "array" ->
            [type |-> "AttributeError", text |-> "'list' object has no attribute 'get'"]
      [] OTHER -> NoFailure

\* The except clauses of do_POST (voice-detection.py).
do_POST_except(exc) ==
    IF exc.type = "json.JSONDecodeError"
    THEN ErrorResponse(400, "Invalid JSON body")
    ELSE ErrorResponse(500, "Internal server error")

\* The exception request.get_json(force=True) / data.get raises in catch_all.
catch_all_parse(req) ==
    CASE req.body_kind = "invalid_json" ->
            [type |-> "werkzeug.exceptions.BadRequest",
             text |-> "400 Bad Request: Failed to decode JSON object"]
      [] req.body_kind = "array" ->
            [type |-> "AttributeError", text |-> "'list' object has no attribute 'get'"]
      [] OTHER -> NoFailure

\* The except clause of catch_all (voicedetection.py): str(e) is appended.
catch_all_except(exc) ==
    ErrorResponse(500, "Internal server error: " \o exc.text)

\* The except clause of voice_detection_post (index.py).
voice_detection_post_except(exc) ==
    ErrorResponse(500, "Internal server error")

\* The body parses into VoiceDetectionRequest (three fields, each a str).
ParsesAsModel(req) ==
    /\ req.body_kind = "object"
    /\ req.language # None /\ req.audioFormat # None /\ req.audioBase64.kind = "str"

-----------------------------------------------------------------------------
(* The inputs *)

\* The spectral measurements (hundredths) that the calculate_* functions of
\* audio_processor.py compute on the samples of a payload, within the ranges
\* their clamps allow.
Signal(zcr, flatness, frame_var, pitch, micro) ==
    [zero_crossing_rate |-> zcr, amplitude_variance |-> 10, spectral_centroid |-> 30,
     spectral_flatness |-> flatness, spectral_rolloff |-> 50,
     frame_variation |-> frame_var, pitch_stability |-> pitch, micro_variation |-> micro]

SigHuman == Signal(30, 60, 40, 50, 90)   \* no indicator
SigSynthetic == Signal(2, 5, 5, 95, 5)      \* all five indicators
SigAmbiguous == Signal(10, 1, 50, 100, 50)  \* two indicators, score in (0.5, 0.55)
SigQuiet == Signal(2, 60, 40, 50, 90)    \* low zero-crossing rate only
SigSteady == Signal(10, 60, 40, 100, 90)  \* high pitch stability only

Signals == {SigHuman, SigSynthetic, SigAmbiguous, SigQuiet, SigSteady}

\* Sextet i (from 1) of the Base64 encoding of a byte sequence whose length
\* is a multiple of 3.
EncodedSextet(b, i) ==
    LET q == (i - 1) \div 4
        r == (i - 1) % 4
    IN  CASE r = 0 -> b[3 * q + 1] \div 4
          [] r = 1 -> (b[3 * q + 1] % 4) * 16 + b[3 * q + 2] \div 16
          [] r = 2 -> (b[3 * q + 2] % 16) * 4 + b[3 * q + 3] \div 64
          [] r = 3 -> b[3 * q + 3] % 64

\* The Base64 text of a payload of n bytes (n >= 12) whose first 12 bytes
\* are `first`, carrying the signal sig.
EncodedAudio(first, n, sig) ==
    [kind    |-> "str",
     sextets |-> [i \in 1..HeadChars |-> EncodedSextet(first, i)],
     more    |-> 4 * (n \div 3) + (CASE n % 3 = 0 -> 0 [] n % 3 = 1 -> 2 [] n % 3 = 2 -> 3)
                 - HeadChars,
     pad     |-> (CASE n % 3 = 0 -> 0 [] n % 3 = 1 -> 2 [] n % 3 = 2 -> 1),
     junk    |-> 0,
     signal  |-> sig]

\* A short text given character by character.
ShortText(sextets, pad, junk) ==
    [kind |-> "str", sextets |-> sextets, more |-> 0, pad |-> pad, junk |-> junk,
     signal |-> SigHuman]

\* The JSON field audioBase64 absent (or null).
AbsentText ==
    [kind |-> "None", sextets |-> <<>>, more |-> 0, pad |-> 0, junk |-> 0, signal |-> SigHuman]

\* "": the empty string.
EmptyText == ShortText(<<>>, 0, 0)

\* "not-base64-!!": nine alphabet characters and four others.
NotBase64Text == ShortText(<<39, 40, 45, 27, 26, 44, 30, 58, 56>>, 0, 4)

\* The first bytes of an MPEG frame: sync 0xFF 0xFB, then zeros.
Mp3Head == <<255, 251, 144, 0, 0, 0, 0, 0, 0, 0, 0, 0>>

\* An ID3v2 header ("ID3", version 3.0, no flags) whose size bytes are b6..b9.
Id3Head(b6, b7, b8, b9) == <<73, 68, 51, 3, 0, 0, b6, b7, b8, b9, 255, 251>>

\* Malformed texts: b64decode raises on them.
MalformedTexts ==
    {NotBase64Text,
     ShortText(<<16, 16>>, 0, 0),        \* "QQ": padding missing
     ShortText(<<16, 16, 16>>, 0, 2)}    \* "QQQ" with spaces: padding missing

\* Well-formed texts of payloads below 1000 bytes.
ShortTexts ==
    {ShortText(<<16, 16, 16, 16>>, 0, 0),           \* "QQQQ": 3 bytes
     ShortText(<<16, 16, 16, 16>>, 0, 2),           \* "QQ!!QQ": 3 bytes, two discarded
     ShortText(<<18, 20, 16, 51>>, 0, 0),           \* "SUQz": the 3 bytes "ID3"
     EncodedAudio(Mp3Head, 999, SigSynthetic),
     EncodedAudio(Id3Head(0, 0, 0, 0), 999, SigSynthetic)}

\* Well-formed texts of payloads of 1000 bytes or more.
LongTexts ==
    {EncodedAudio(Mp3Head, 1000, SigSynthetic),
     EncodedAudio(Mp3Head, 1000, SigAmbiguous),
     EncodedAudio(Mp3Head, 2002, SigSynthetic),
     EncodedAudio(Mp3Head, 2002, SigHuman),
     EncodedAudio(Mp3Head, 2002, SigAmbiguous),
     EncodedAudio(Mp3Head, 2002, SigQuiet),
     EncodedAudio(Mp3Head, 2002, SigSteady),
     EncodedAudio(Id3Head(0, 0, 0, 0), 1000, SigSynthetic),    \* 990 samples
     EncodedAudio(Id3Head(0, 0, 3, 107), 1000, SigSynthetic),  \* size 491: 499 samples
     EncodedAudio(Id3Head(0, 0, 3, 106), 1000, SigSynthetic),  \* size 490: 500 samples
     EncodedAudio(Id3Head(1, 0, 0, 0), 1000, SigSynthetic),    \* size 2^21 > length
     EncodedAudio(Id3Head(0, 0, 7, 104), 2010, SigSynthetic)}  \* size 1000: 1000 samples

\* The audioBase64 strings of the model.
AudioTexts == {EmptyText} \cup MalformedTexts \cup ShortTexts \cup LongTexts

Handlers == {"index", "voice-detection", "voicedetection"}

ApiKeys == {None, "", "wrong_key", "sk_test_123456789", "prod_key"}

Environs == {"<unset>", "prod_key"}

\* The POST requests of the model.
HttpRequests ==
    [handler : Handlers, x_api_key : ApiKeys,
     body_kind : {"invalid_json", "array", "empty_object"},
     language : {None}, audioFormat : {None}, audioBase64 : {AbsentText}]
    \cup
    [handler : Handlers, x_api_key : ApiKeys, body_kind : {"object"},
     language : {None, "", "French", "English"},
     audioFormat : {None, "", "wav", "mp3"},
     audioBase64 : {AbsentText} \cup AudioTexts]

-----------------------------------------------------------------------------
(* The state machine *)

Calls == DOMAIN pc

\* The tables and the build are set when the modules are imported.
InitModules ==
    /\ THRESHOLDS = THRESHOLDS_init
    /\ EXPLANATIONS = EXPLANATIONS_init
    /\ numpy_nep50 \in BOOLEAN

\* One POST request has arrived at one of the handlers.
Init ==
    /\ InitModules
    /\ environ \in Environs
    /\ request \in [{1} -> HttpRequests]
    /\ pc = [c \in {1} |-> "received"]
    /\ frame = [c \in {1} |-> <<>>]
    /\ failure = [c \in {1} |-> NoFailure]
    /\ response = [c \in {1} |-> NoResponse]

\* The handler answers call c with r and returns.
Respond(c, r) ==
    /\ response' = [response EXCEPT ![c] = r]
    /\ pc' = [pc EXCEPT ![c] = "done"]
    /\ UNCHANGED <<frame, failure>>

\* The exception exc is raised inside the handler's try block: its except
\* clause answers call c with r.
RaiseAndRespond(c, exc, r) ==
    /\ failure' = [failure EXCEPT ![c] = exc]
    /\ response' = [response EXCEPT ![c] = r]
    /\ pc' = [pc EXCEPT ![c] = "done"]
    /\ UNCHANGED frame

\* The handler calls classify_voice(audio_base64, language).
CallClassify(c) ==
    /\ frame' = [frame EXCEPT ![c] = [audio_base64 |-> request[c].audioBase64,
                                      language     |-> request[c].language]]
    /\ pc' = [pc EXCEPT ![c] = "decode"]
    /\ UNCHANGED <<failure, response>>

\* index.py, voice_detection_post up to the call of classify_voice: FastAPI
\* parses the body into the `request` parameter before the function runs.
voice_detection_post(c) ==
    /\ pc[c] = "received" /\ request[c].handler = "index"
    /\ IF ~ParsesAsModel(request[c]) THEN Respond(c, UnprocessableResponse)
       ELSE IF ~validate_api_key(request[c].x_api_key, environ)
            THEN Respond(c, UnauthorizedResponse)
       ELSE IF LanguageFormatChecks(request[c]) # NoResponse
            THEN Respond(c, LanguageFormatChecks(request[c]))
       ELSE CallClassify(c)
    /\ UNCHANGED <<THRESHOLDS, EXPLANATIONS, environ, numpy_nep50, request>>

\* voice-detection.py, handler.do_POST up to the call of classify_voice.
do_POST(c) ==
    /\ pc[c] = "received" /\ request[c].handler = "voice-detection"
    /\ IF ~validate_api_key(request[c].x_api_key, environ)
       THEN Respond(c, UnauthorizedResponse)
       ELSE IF do_POST_parse(request[c]) # NoFailure
            THEN RaiseAndRespond(c, do_POST_parse(request[c]),
                                 do_POST_except(do_POST_parse(request[c])))
       ELSE IF FieldChecks(request[c]) # NoResponse
            THEN Respond(c, FieldChecks(request[c]))
       ELSE CallClassify(c)
    /\ UNCHANGED <<THRESHOLDS, EXPLANATIONS, environ, numpy_nep50, request>>

\* voicedetection.py, catch_all (POST) up to the call of classify_voice.
catch_all(c) ==
    /\ pc[c] = "received" /\ request[c].handler = "voicedetection"
    /\ IF ~validate_api_key(request[c].x_api_key, environ)
       THEN Respond(c, UnauthorizedResponse)
       ELSE IF request[c].body_kind = "invalid_json"
            THEN RaiseAndRespond(c, catch_all_parse(request[c]),
                                 catch_all_except(catch_all_parse(request[c])))
       ELSE IF request[c].body_kind = "empty_object"
            THEN Respond(c, ErrorResponse(400, "Request body is required"))
       ELSE IF catch_all_parse(request[c]) # NoFailure
            THEN RaiseAndRespond(c, catch_all_parse(request[c]),
                                 catch_all_except(catch_all_parse(request[c])))
       ELSE IF FieldChecks(request[c]) # NoResponse
            THEN Respond(c, FieldChecks(request[c]))
       ELSE CallClassify(c)
    /\ UNCHANGED <<THRESHOLDS, EXPLANATIONS, environ, numpy_nep50, request>>

\* classify_voice, line 54: audio_bytes = decode_base64_audio(audio_base64)
Decode(c) ==
    /\ pc[c] = "decode"
    /\ IF B64WellFormed(frame[c].audio_base64)
       THEN /\ frame' = [frame EXCEPT ![c] =
                    frame[c] @@ [audio_bytes |-> decode_base64_audio(frame[c].audio_base64)]]
            /\ pc' = [pc EXCEPT ![c] = "extract"]
            /\ UNCHANGED failure
       ELSE /\ failure' = [failure EXCEPT ![c] = B64Error(frame[c].audio_base64)]
            /\ pc' = [pc EXCEPT ![c] = "raised"]
            /\ UNCHANGED frame
    /\ UNCHANGED <<THRESHOLDS, EXPLANATIONS, environ, numpy_nep50, request, response>>

\* classify_voice, line 55: features = extract_audio_features(audio_bytes)
Extract(c) ==
    /\ pc[c] = "extract"
    /\ frame' = [frame EXCEPT ![c] =
            frame[c] @@ [features |-> extract_audio_features(frame[c].audio_bytes, numpy_nep50)]]
    /\ pc' = [pc EXCEPT ![c] = "calculate"]
    /\ UNCHANGED <<THRESHOLDS, EXPLANATIONS, environ, numpy_nep50, request, failure, response>>

\* Calculate keeping the largest pitch stability seen so far as the
\* module-level threshold (a threshold tuned by the calls).
Calculate_tuning(c) ==
    /\ pc[c] = "calculate"
    /\ frame' = [frame EXCEPT ![c] =
            frame[c] @@ [scores     |-> PartialScores(frame[c].features, THRESHOLDS),
                         ai_score   |-> calculate_ai_probability(frame[c].features, THRESHOLDS)[1],
                         indicators |-> calculate_ai_probability(frame[c].features, THRESHOLDS)[2]]]
    /\ THRESHOLDS' = [THRESHOLDS EXCEPT !.pitch_stability_high =
            Max(@, Min(99, Get(frame[c].features, "pitch_stability", 50)))]
    /\ pc' = [pc EXCEPT ![c] = "decide"]
    /\ UNCHANGED <<EXPLANATIONS, environ, numpy_nep50, request, failure, response>>

\* classify_voice, line 58: ai_score, indicators = calculate_ai_probability(features)
Calculate(c) ==
    /\ pc[c] = "calculate"
    /\ frame' = [frame EXCEPT ![c] =
            frame[c] @@ [scores     |-> PartialScores(frame[c].features, THRESHOLDS),
                         ai_score   |-> calculate_ai_probability(frame[c].features, THRESHOLDS)[1],
                         indicators |-> calculate_ai_probability(frame[c].features, THRESHOLDS)[2]]]
    /\ pc' = [pc EXCEPT ![c] = "decide"]
    /\ UNCHANGED <<THRESHOLDS, EXPLANATIONS, environ, numpy_nep50, request, failure, response>>

\* classify_voice, lines 60-79: the decision and the returned dict.
Decide(c) ==
    /\ pc[c] = "decide"
    /\ LET decision == Decision(frame[c].ai_score, frame[c].indicators, EXPLANATIONS)
       IN  frame' = [frame EXCEPT ![c] =
                frame[c] @@ [confidence |-> decision.confidence,
                             result     |-> ResultDict(decision)]]
    /\ pc' = [pc EXCEPT ![c] = "returned"]
    /\ UNCHANGED <<THRESHOLDS, EXPLANATIONS, environ, numpy_nep50, request, failure, response>>

\* The except clause of the handler that made call c.
HandlerExcept(handler, exc) ==
    CASE handler = "index" -> voice_detection_post_except(exc)
      [] handler = "voice-detection" -> do_POST_except(exc)
      [] handler = "voicedetection" -> catch_all_except(exc)

\* The handler builds the 200 response from the dict classify_voice returned.
HandlerReturn(c) ==
    /\ pc[c] = "returned" /\ request[c].handler \in Handlers
    /\ response' = [response EXCEPT ![c] =
            SuccessResponse(request[c].language, frame[c].result)]
    /\ pc' = [pc EXCEPT ![c] = "done"]
    /\ UNCHANGED <<THRESHOLDS, EXPLANATIONS, environ, numpy_nep50, request, frame, failure>>

\* The exception classify_voice raised reaches the handler's except clause.
HandlerCatch(c) ==
    /\ pc[c] = "raised" /\ request[c].handler \in Handlers
    /\ response' = [response EXCEPT ![c] = HandlerExcept(request[c].handler, failure[c])]
    /\ pc' = [pc EXCEPT ![c] = "done"]
    /\ UNCHANGED <<THRESHOLDS, EXPLANATIONS, environ, numpy_nep50, request, frame, failure>>

Next ==
    \/ \E c \in Calls : voice_detection_post(c)
    \/ \E c \in Calls : do_POST(c)
    \/ \E c \in Calls : catch_all(c)
    \/ \E c \in Calls : Decode(c)
    \/ \E c \in Calls : Extract(c)
    \/ \E c \in Calls : Calculate(c)
    \/ \E c \in Calls : Decide(c)
    \/ \E c \in Calls : HandlerReturn(c)
    \/ \E c \in Calls : HandlerCatch(c)

Spec == Init /\ [][Next]_vars

-----------------------------------------------------------------------------
(* classify_voice and calculate_ai_probability called directly *)

\* Feature values (hundredths) around every threshold of THRESHOLDS, at the
\* ends of [0, 1] and at the values that put the AI score on 0.45 and 0.55.
FlatnessValues == {0, 7, 14, 15, 16, 50, 100}
StabilityValues == {50, 70, 71, 94, 100}
MicroValues == {0, 6, 29, 30, 50, 100}
FrameValues == {0, 14, 15, 50, 100}
ZcrValues == {0, 4, 5, 10}

\* Values no calculate_* function returns (below 0, above 1).
OutOfRange == {-50, 150}

\* The signals of the model: every combination of the values above.
WideSignals ==
    {Signal(z, fl, fr, p, m) :
        z \in ZcrValues, fl \in FlatnessValues, fr \in FrameValues,
        p \in StabilityValues, m \in MicroValues}

\* Texts of payloads that reach the analysis path or miss it by one sample.
WideTexts ==
    {EncodedAudio(Mp3Head, 2002, sig) : sig \in WideSignals}
    \cup {EncodedAudio(Id3Head(0, 0, 0, 0), 1000, sig) : sig \in WideSignals}
    \cup {EncodedAudio(Id3Head(0, 0, 3, 107), 1000, sig) : sig \in WideSignals}

ScoredKeys ==
    {"spectral_flatness", "pitch_stability", "micro_variation", "frame_variation",
     "zero_crossing_rate"}

\* The dict d without the keys outside keep.
Restrict(d, keep) == [k \in DOMAIN d \cap keep |-> d[k]]

\* Feature dicts handed to calculate_ai_probability directly: every
\* combination of in-range and out-of-range values, and dicts with keys missing.
FeatureDicts ==
    [spectral_flatness  : FlatnessValues \cup OutOfRange,
     pitch_stability    : StabilityValues \cup OutOfRange,
     micro_variation    : MicroValues \cup OutOfRange,
     frame_variation    : FrameValues \cup OutOfRange,
     zero_crossing_rate : ZcrValues \cup OutOfRange]
    \cup {Restrict(sig, keep) : sig \in {SigSynthetic, SigAmbiguous}, keep \in SUBSET ScoredKeys}

DirectCall == [handler |-> "direct"]

\* One call: classify_voice on a text, or calculate_ai_probability and the
\* decision on a feature dict.
InitClassify ==
    /\ InitModules
    /\ environ = "<unset>"
    /\ request = [c \in {1} |-> DirectCall]
    /\ failure = [c \in {1} |-> NoFailure]
    /\ response = [c \in {1} |-> NoResponse]
    /\ \/ /\ pc = [c \in {1} |-> "decode"]
          /\ \E text \in AudioTexts \cup WideTexts :
                frame = [c \in {1} |-> [audio_base64 |-> text, language |-> "English"]]
       \/ /\ pc = [c \in {1} |-> "calculate"]
          /\ \E features \in FeatureDicts :
                frame = [c \in {1} |-> [features |-> features]]

NextClassify ==
    \/ \E c \in Calls : Decode(c)
    \/ \E c \in Calls : Extract(c)
    \/ \E c \in Calls : Calculate(c)
    \/ \E c \in Calls : Decide(c)

SpecClassify == InitClassify /\ [][NextClassify]_vars

\* The texts of the concurrent calls.
ConcTexts ==
    {NotBase64Text,
     ShortText(<<16, 16, 16, 16>>, 0, 0),
     EncodedAudio(Mp3Head, 2002, SigSynthetic),
     EncodedAudio(Mp3Head, 2002, SigAmbiguous),
     EncodedAudio(Mp3Head, 2002, SigSteady),
     EncodedAudio(Id3Head(0, 0, 3, 107), 1000, SigSynthetic)}

\* MaxCalls calls of classify_voice are in progress at once (the host serves
\* requests in parallel); their steps interleave in any order.
InitConc ==
    /\ InitModules
    /\ environ = "<unset>"
    /\ request = [c \in 1..MaxCalls |-> DirectCall]
    /\ failure = [c \in 1..MaxCalls |-> NoFailure]
    /\ response = [c \in 1..MaxCalls |-> NoResponse]
    /\ pc = [c \in 1..MaxCalls |-> "decode"]
    /\ \E texts \in [1..MaxCalls -> ConcTexts] :
            frame = [c \in 1..MaxCalls |-> [audio_base64 |-> texts[c], language |-> "English"]]

SpecConc == InitConc /\ [][NextClassify]_vars

-----------------------------------------------------------------------------
(* generate_ai_explanation and generate_human_explanation called directly *)

\* Every indicators dict: each of the five keys True or False.
IndicatorDicts == [{IndicatorKeys[i] : i \in 1..5} -> BOOLEAN]

\* Scores handed to generate_ai_explanation (0.55 and 1) and to
\* generate_human_explanation (0 and 0.45).
AiBranchScores == {(55 * AiScale) \div 100, AiScale}
HumanBranchScores == {0, (45 * AiScale) \div 100}

\* One call: calculate_ai_probability and the decision on a feature dict, or
\* one of the two explanation functions on an indicators dict and a score.
InitExplain ==
    /\ InitModules
    /\ environ = "<unset>"
    /\ request = [c \in {1} |-> DirectCall]
    /\ failure = [c \in {1} |-> NoFailure]
    /\ response = [c \in {1} |-> NoResponse]
    /\ \/ /\ pc = [c \in {1} |-> "calculate"]
          /\ \E features \in FeatureDicts :
                frame = [c \in {1} |-> [features |-> features]]
       \/ /\ pc = [c \in {1} |-> "generate_ai_explanation"]
          /\ \E indicators \in IndicatorDicts, score \in AiBranchScores :
                frame = [c \in {1} |-> [indicators |-> indicators, score |-> score]]
       \/ /\ pc = [c \in {1} |-> "generate_human_explanation"]
          /\ \E indicators \in IndicatorDicts, score \in HumanBranchScores :
                frame = [c \in {1} |-> [indicators |-> indicators, score |-> score]]

\* generate_ai_explanation(indicators, score) returns.
ExplainAi(c) ==
    /\ pc[c] = "generate_ai_explanation"
    /\ frame' = [frame EXCEPT ![c] =
            frame[c] @@ [explanation |-> generate_ai_explanation(frame[c].indicators, EXPLANATIONS)]]
    /\ pc' = [pc EXCEPT ![c] = "returned"]
    /\ UNCHANGED <<THRESHOLDS, EXPLANATIONS, environ, numpy_nep50, request, failure, response>>

\* generate_human_explanation(indicators, score) returns.
ExplainHuman(c) ==
    /\ pc[c] = "generate_human_explanation"
    /\ frame' = [frame EXCEPT ![c] =
            frame[c] @@ [explanation |-> generate_human_explanation(frame[c].indicators, EXPLANATIONS)]]
    /\ pc' = [pc EXCEPT ![c] = "returned"]
    /\ UNCHANGED <<THRESHOLDS, EXPLANATIONS, environ, numpy_nep50, request, failure, response>>

NextExplain ==
    \/ \E c \in Calls : Calculate(c)
    \/ \E c \in Calls : Decide(c)
    \/ \E c \in Calls : ExplainAi(c)
    \/ \E c \in Calls : ExplainHuman(c)

SpecExplain == InitExplain /\ [][NextExplain]_vars

-----------------------------------------------------------------------------
(* parse_mp3_to_samples called directly *)

\* First bytes that are no ID3v2 header: an MPEG frame, and "ID4".
PlainHeads == {Mp3Head, <<73, 68, 52, 3, 0, 0, 0, 0, 0, 10, 255, 251>>}

\* ID3v2 headers whose size bytes have bits in every position of the field:
\* the high bit the mask clears, and bits that a shift moves past bit 7.
Id3Heads ==
    {Id3Head(b6, b7, b8, b9) :
        b6 \in {0, 1, 128}, b7 \in {0, 1}, b8 \in {0, 1, 3}, b9 \in {0, 2, 107, 255}}

\* Lengths of the byte strings: below and at the 3 bytes of the tag and the
\* 10 bytes of the header, and lengths past the sizes the headers announce.
ParseLens == {0, 2, 3, 9, 10, 11, 12, 300, 1000, 2100000}

\* The byte string of n bytes that starts with the bytes of first.
BytesOf(first, n) ==
    [len    |-> n,
     head   |-> SubSeq(first, 1, Min(n, Len(first))),
     signal |-> SigHuman]

ParseInputs == {BytesOf(first, n) : first \in PlainHeads \cup Id3Heads, n \in ParseLens}

\* One call of parse_mp3_to_samples on a byte string.
InitParse ==
    /\ InitModules
    /\ environ = "<unset>"
    /\ request = [c \in {1} |-> DirectCall]
    /\ failure = [c \in {1} |-> NoFailure]
    /\ response = [c \in {1} |-> NoResponse]
    /\ pc = [c \in {1} |-> "parse_mp3_to_samples"]
    /\ \E audio_bytes \in ParseInputs :
            frame = [c \in {1} |-> [audio_bytes |-> audio_bytes]]

\* parse_mp3_to_samples(audio_bytes) returns.
Parse(c) ==
    /\ pc[c] = "parse_mp3_to_samples"
    /\ frame' = [frame EXCEPT ![c] =
            frame[c] @@ [samples |-> parse_mp3_to_samples(frame[c].audio_bytes, numpy_nep50)]]
    /\ pc' = [pc EXCEPT ![c] = "returned"]
    /\ UNCHANGED <<THRESHOLDS, EXPLANATIONS, environ, numpy_nep50, request, failure, response>>

NextParse ==
    \/ \E c \in Calls : Parse(c)

SpecParse == InitParse /\ [][NextParse]_vars

-----------------------------------------------------------------------------
(* Properties *)

\* classify_voice has returned in call c.
HasResult(c) == "result" \in DOMAIN frame[c]

\* The x-api-key header of call c is missing, empty or not the configured secret.
BadKey(c) ==
    \/ request[c].x_api_key = None
    \/ request[c].x_api_key = ""
    \/ request[c].x_api_key # get_api_key(environ)

\* The body of call c is a JSON object with the three fields present and non-empty.
FieldsPresent(c) ==
    /\ request[c].body_kind = "object"
    /\ request[c].language \notin {None, ""}
    /\ request[c].audioFormat \notin {None, ""}
    /\ request[c].audioBase64.kind = "str"
    /\ Len(request[c].audioBase64.sextets) + request[c].audioBase64.more
         + request[c].audioBase64.pad + request[c].audioBase64.junk > 0

\* classify_voice has been entered in call c.
ClassifyStarted(c) == "audio_base64" \in DOMAIN frame[c]

Generic500 == [status |-> 500, body |-> [status |-> "error", message |-> "Internal server error"]]

\* C1: whatever classify_voice returns carries a classification that is
\* AI_GENERATED or HUMAN and a confidenceScore within [0.5, 0.99] (so does the
\* confidence before rounding), whichever branch of the decision produced it.
C1_LabelAndConfidenceRange ==
    \A c \in Calls :
        HasResult(c) =>
            /\ frame[c].result.classification \in {"AI_GENERATED", "HUMAN"}
            /\ frame[c].result.confidenceScore >= 50
            /\ frame[c].result.confidenceScore <= 99
            /\ 2 * frame[c].confidence >= ConfScale
            /\ 100 * frame[c].confidence <= 99 * ConfScale

\* A decoded text whose score falls strictly between 0.5 and 0.55 was labelled.
C1_Witness ==
    \E c \in Calls :
        /\ HasResult(c) /\ ClassifyStarted(c)
        /\ frame[c].audio_bytes.len >= 1000
        /\ 2 * frame[c].ai_score > AiScale
        /\ 100 * frame[c].ai_score < 55 * AiScale
        /\ frame[c].result.classification = "AI_GENERATED"

\* C2: a POST with a valid key, a valid language and audioFormat mp3 whose
\* audioBase64 is not valid Base64 is answered 400 with a message saying so.
C2_MalformedBase64Is400 ==
    \A c \in Calls :
        ( /\ pc[c] = "done"
          /\ ~BadKey(c)
          /\ FieldsPresent(c)
          /\ request[c].language \in valid_languages
          /\ request[c].audioFormat = "mp3"
          /\ ~B64WellFormed(request[c].audioBase64) )
        => /\ response[c].status = 400
           /\ response[c].body.message \in {"Invalid Base64 encoding", "Invalid request"}

\* C3: a POST whose x-api-key is missing, empty or wrong is answered 401
\* "Invalid API key or malformed request" whatever its body is.
C3_BadKeyIs401 ==
    \A c \in Calls :
        (pc[c] = "done" /\ BadKey(c)) =>
            response[c] = [status |-> 401,
                           body   |-> [status  |-> "error",
                                       message |-> "Invalid API key or malformed request"]]

\* C4: an unexpected failure (here: the body is a JSON array, so data.get
\* raises AttributeError) is answered 500, and every 500 response is exactly
\* {status: error, message: Internal server error}.
C4_FailureIsGeneric500 ==
    \A c \in Calls :
        pc[c] = "done" =>
            /\ failure[c].type = "AttributeError" => response[c] = Generic500
            /\ response[c].status = 500 => response[c] = Generic500

\* The first constraint call c violates, in the order auth, required fields,
\* language, audioFormat, Base64; "none" when it violates none.
FirstViolation(c) ==
    IF BadKey(c) THEN "auth"
    ELSE IF ~FieldsPresent(c) THEN "fields"
    ELSE IF request[c].language \notin valid_languages THEN "language"
    ELSE IF request[c].audioFormat # "mp3" THEN "audioFormat"
    ELSE IF ~B64WellFormed(request[c].audioBase64) THEN "base64"
    ELSE "none"

\* C5: validation fails fast in the order auth, required fields, language,
\* audioFormat, Base64: classify_voice is entered only when all five pass, and
\* a request violating some is answered for the first it violates.
C5_FailFastOrder ==
    \A c \in Calls :
        /\ ClassifyStarted(c) => FirstViolation(c) = "none"
        /\ pc[c] = "done" =>
            /\ FirstViolation(c) = "auth" => response[c].status = 401
            /\ FirstViolation(c) \in {"fields", "base64"} => response[c].status = 400
            /\ FirstViolation(c) = "language" => response[c] = InvalidLanguageResponse
            /\ FirstViolation(c) = "audioFormat" => response[c] = InvalidFormatResponse

\* C6: a POST with a valid key in which language, audioFormat or audioBase64
\* is missing or empty is answered 400, and its audio is never classified.
C6_MissingFieldIs400 ==
    \A c \in Calls :
        ( /\ ~BadKey(c)
          /\ request[c].body_kind = "object"
          /\ ~FieldsPresent(c) )
        => /\ ~ClassifyStarted(c)
           /\ pc[c] = "done" => response[c].status = 400

\* What classify_voice returns for a text when it runs alone.
SoloResult(text, nep50) ==
    LET features == extract_audio_features(decode_base64_audio(text), nep50)
        p == calculate_ai_probability(features, THRESHOLDS_init)
    IN  ResultDict(Decision(p[1], p[2], EXPLANATIONS_init))

\* C7: with calls interleaved in any order, no call writes THRESHOLDS or
\* EXPLANATIONS, every call that returns holds the result its own text gives
\* when run alone, and calls on the same text return the same result.
C7_DeterministicReentrant ==
    /\ THRESHOLDS = THRESHOLDS_init
    /\ EXPLANATIONS = EXPLANATIONS_init
    /\ \A c \in Calls :
          HasResult(c) => frame[c].result = SoloResult(frame[c].audio_base64, numpy_nep50)
    /\ \A c, d \in Calls :
          (HasResult(c) /\ HasResult(d) /\ frame[c].audio_base64 = frame[d].audio_base64)
              => frame[c].result = frame[d].result

\* Two calls on the same analysable text: one has returned while the other is
\* in the middle of classify_voice.
C7_Witness ==
    \E c, d \in Calls :
        /\ c # d
        /\ frame[c].audio_base64 = frame[d].audio_base64
        /\ pc[c] = "returned" /\ pc[d] = "decide"
        /\ frame[c].audio_bytes.len >= 1000
        /\ frame[c].result.classification = "AI_GENERATED"

\* C8: the three-band rule on the AI score s.  s >= 0.55: AI_GENERATED with
\* confidence min(0.99, 0.5 + (s - 0.5) * 0.98).  s <= 0.45: HUMAN with
\* confidence min(0.99, 0.5 + (0.5 - s) * 0.98).  Between: the 'uncertain'
\* explanation, confidence 0.5 + |s - 0.5| * 0.5, AI_GENERATED iff s > 0.5.
\* confidenceScore is the confidence rounded to two decimals.
C8_ThreeBandRule ==
    \A c \in Calls :
        HasResult(c) =>
            LET s == frame[c].ai_score
                r == frame[c].result
                conf == frame[c].confidence
            IN  /\ 100 * s >= 55 * AiScale =>
                    /\ r.classification = "AI_GENERATED"
                    /\ conf = Min(5940000, 3000000 + (s - 30000) * 98)
                /\ 100 * s <= 45 * AiScale =>
                    /\ r.classification = "HUMAN"
                    /\ conf = Min(5940000, 3000000 + (30000 - s) * 98)
                /\ (100 * s > 45 * AiScale /\ 100 * s < 55 * AiScale) =>
                    /\ r.explanation = EXPLANATIONS_init.uncertain
                    /\ conf = 3000000 + Abs(s - 30000) * 50
                    /\ r.classification = "AI_GENERATED" <=> s > 30000
                /\ s = 30000 => (r.classification = "HUMAN" /\ r.confidenceScore = 50)
                /\ 60000 * r.confidenceScore - conf <= 30000
                /\ conf - 60000 * r.confidenceScore <= 30000

\* A score of exactly 0.5 was decided.
C8_Witness ==
    \E c \in Calls :
        /\ HasResult(c)
        /\ 2 * frame[c].ai_score = AiScale
        /\ frame[c].result.classification = "HUMAN"
        /\ frame[c].result.confidenceScore = 50

\* The vector get_default_features documents, for a payload of n bytes.
DefaultVector(n) ==
    [byte_length |-> n, zero_crossing_rate |-> 10, amplitude_variance |-> 10,
     spectral_centroid |-> 30, spectral_flatness |-> 50, spectral_rolloff |-> 50,
     frame_variation |-> 50, pitch_stability |-> 50, micro_variation |-> 50]

\* Extraction of these bytes takes the default path: fewer than 1000 bytes,
\* or fewer than 500 samples after the ID3v2 header is skipped.
DefaultPath(audio_bytes) ==
    \/ audio_bytes.len < 1000
    \/ parse_mp3_to_samples(audio_bytes, numpy_nep50).len < 500

C10_ScoresInUnitInterval ==
    \A c \in Calls :
        "ai_score" \in DOMAIN frame[c] =>
            /\ Len(frame[c].scores) = 5
            /\ \A i \in 1..5 : frame[c].scores[i] >= 0 /\ frame[c].scores[i] <= ScoreScale
            /\ frame[c].ai_score >= 0 /\ frame[c].ai_score <= AiScale

\* A dict with flatness below 0 and stability above 1 was scored.
C10_Witness ==
    \E c \in Calls :
        /\ "ai_score" \in DOMAIN frame[c]
        /\ "audio_bytes" \notin DOMAIN frame[c]
        /\ Get(frame[c].features, "spectral_flatness", 50) < 0
        /\ Get(frame[c].features, "pitch_stability", 50) > FeatScale
        /\ frame[c].scores[1] = ScoreScale


\* The number of indicators set in call c.
ActiveIn(c) == Cardinality({k \in DOMAIN frame[c].indicators : frame[c].indicators[k]})

\* The average of the partial scores of call c under the weights 0.25, 0.25,
\* 0.20, 0.15, 0.15 (written in hundredths), in units of 1/AiScale.
AverageOf(c) ==
    ((25 * frame[c].scores[1] + 25 * frame[c].scores[2] + 20 * frame[c].scores[3]
        + 15 * frame[c].scores[4] + 15 * frame[c].scores[5]) * (AiScale \div ScoreScale))
      \div (25 + 25 + 20 + 15 + 15)

\* C11: the score calculate_ai_probability returns is the average of the five
\* partial scores under the weights 0.25/0.25/0.20/0.15/0.15 (which sum to 1),
\* plus 0.15 capped at 1 when 3 or more indicators are active, minus 0.1
\* floored at 0 when none is, and unchanged with 1 or 2 active indicators.
C11_WeightedAverageAdjusted ==
    \A c \in Calls :
        "ai_score" \in DOMAIN frame[c] =>
            /\ 25 + 25 + 20 + 15 + 15 = 100
            /\ ActiveIn(c) >= 3 =>
                    frame[c].ai_score = Min(AiScale, AverageOf(c) + (15 * AiScale) \div 100)
            /\ ActiveIn(c) = 0 =>
                    frame[c].ai_score = Max(0, AverageOf(c) - (10 * AiScale) \div 100)
            /\ ActiveIn(c) \in {1, 2} => frame[c].ai_score = AverageOf(c)

\* A dict with no active indicator and a positive average below 0.1 was scored:
\* the penalty met the floor.
C11_Witness ==
    \E c \in Calls :
        /\ "ai_score" \in DOMAIN frame[c]
        /\ ActiveIn(c) = 0
        /\ AverageOf(c) > 0 /\ 10 * AverageOf(c) < AiScale
        /\ frame[c].ai_score = 0


\* The feature dict with key set to value.
WithFeature(features, key, value) ==
    [k \in DOMAIN features \cup {key} |-> IF k = key THEN value ELSE features[k]]

\* The values a feature is raised to.
RaisedValues == FlatnessValues \cup MicroValues \cup OutOfRange

\* Raising feature key of call c (the others fixed) raises neither partial
\* score number i nor the score calculate_ai_probability returns.
NeverIncreases(c, key, i) ==
    \A v \in RaisedValues :
        v > Get(frame[c].features, key, 50) =>
            /\ PartialScores(WithFeature(frame[c].features, key, v), THRESHOLDS)[i]
                    <= frame[c].scores[i]
            /\ calculate_ai_probability(WithFeature(frame[c].features, key, v), THRESHOLDS)[1]
                    <= frame[c].ai_score

\* C12: with the other features fixed, the partial score of flatness (of
\* micro-variation) and the AI score never increase when spectral_flatness
\* (micro_variation) increases, across the threshold included.
C12_LowerIsMoreSynthetic ==
    \A c \in Calls :
        "ai_score" \in DOMAIN frame[c] =>
            /\ NeverIncreases(c, "spectral_flatness", 1)
            /\ NeverIncreases(c, "micro_variation", 3)


\* The set of indicators that are set in the dict.
ActiveSet(indicators) == {k \in DOMAIN indicators : indicators[k]}

\* The priority order of the single-indicator messages of the AI branch.
AiPriority == <<"high_stability", "low_flatness", "low_micro_var", "low_frame_var">>
AiMessage == <<"ai_stability", "ai_spectral", "ai_smooth", "ai_consistent">>

\* The explanation key the AI branch is said to give for the active set.
AiKeyFor(active) ==
    LET hits == {i \in 1..4 : AiPriority[i] \in active}
    IN  IF Cardinality(active) >= 3 \/ hits = {} THEN "ai_combined"
        ELSE AiMessage[CHOOSE i \in hits : \A j \in hits : i <= j]

\* The explanation key the HUMAN branch is said to give for the active set.
HumanKeyFor(active) ==
    IF active = {} THEN "human_natural"
    ELSE IF "high_stability" \notin active THEN "human_unstable"
    ELSE "human_variation"

\* The explanation key said to go with a score and an active set.
KeyFor(score, active) ==
    IF 100 * score >= 55 * AiScale THEN AiKeyFor(active)
    ELSE IF 100 * score <= 45 * AiScale THEN HumanKeyFor(active)
    ELSE "uncertain"

\* C13: the explanation is a function of the score band and the active
\* indicators. AI branch (score >= 0.55): ai_combined with 3 or more active,
\* otherwise the message of the first active one of high_stability,
\* low_flatness, low_micro_var, low_frame_var, and ai_combined if none of them
\* is active. HUMAN branch (score <= 0.45): human_natural with none active,
\* human_unstable with some active but not high_stability, else
\* human_variation. In between: uncertain.
C13_ExplanationByBandAndIndicators ==
    \A c \in Calls :
        /\ HasResult(c) =>
                frame[c].result.explanation
                    = EXPLANATIONS[KeyFor(frame[c].ai_score, ActiveSet(frame[c].indicators))]
        /\ "explanation" \in DOMAIN frame[c] =>
                frame[c].explanation
                    = EXPLANATIONS[KeyFor(frame[c].score, ActiveSet(frame[c].indicators))]

\* generate_ai_explanation returned ai_stability for a dict in which
\* high_stability and low_flatness are the two active indicators.
C13_Witness ==
    \E c \in Calls :
        /\ "explanation" \in DOMAIN frame[c]
        /\ 100 * frame[c].score >= 55 * AiScale
        /\ ActiveSet(frame[c].indicators) = {"high_stability", "low_flatness"}
        /\ frame[c].explanation = EXPLANATIONS.ai_stability


\* Feature key of the dict is present and strictly below (above) value/100.
StrictlyBelow(features, key, value) == key \in DOMAIN features /\ features[key] < value
StrictlyAbove(features, key, value) == key \in DOMAIN features /\ features[key] > value

\* C14: an indicator is set if and only if its feature is strictly past its
\* threshold: spectral_flatness < 0.15, pitch_stability > 0.7,
\* micro_variation < 0.3, frame_variation < 0.15, zero_crossing_rate < 0.05.
\* A value equal to the threshold does not set the indicator.
C14_StrictComparisons ==
    \A c \in Calls :
        ("indicators" \in DOMAIN frame[c] /\ "features" \in DOMAIN frame[c]
            /\ ScoredKeys \subseteq DOMAIN frame[c].features) =>
            /\ frame[c].indicators.low_flatness
                    <=> StrictlyBelow(frame[c].features, "spectral_flatness", 15)
            /\ frame[c].indicators.high_stability
                    <=> StrictlyAbove(frame[c].features, "pitch_stability", 70)
            /\ frame[c].indicators.low_micro_var
                    <=> StrictlyBelow(frame[c].features, "micro_variation", 30)
            /\ frame[c].indicators.low_frame_var
                    <=> StrictlyBelow(frame[c].features, "frame_variation", 15)
            /\ frame[c].indicators.low_zcr
                    <=> StrictlyBelow(frame[c].features, "zero_crossing_rate", 5)

\* A dict with every feature exactly on its threshold was scored and no
\* indicator is set.
C14_Witness ==
    \E c \in Calls :
        /\ "indicators" \in DOMAIN frame[c]
        /\ ScoredKeys \subseteq DOMAIN frame[c].features
        /\ frame[c].features.spectral_flatness = 15
        /\ frame[c].features.pitch_stability = 70
        /\ frame[c].features.micro_variation = 30
        /\ frame[c].features.frame_variation = 15
        /\ frame[c].features.zero_crossing_rate = 5
        /\ \A k \in DOMAIN frame[c].indicators : ~frame[c].indicators[k]


\* The byte string starts with 0x49 0x44 0x33 and has at least 10 bytes.
HasId3Header(audio_bytes) ==
    /\ audio_bytes.len >= 10
    /\ audio_bytes.head[1] = 73 /\ audio_bytes.head[2] = 68 /\ audio_bytes.head[3] = 51

\* (b6 & 0x7F) * 2^21 + (b7 & 0x7F) * 2^14 + (b8 & 0x7F) * 2^7 + (b9 & 0x7F),
\* no intermediate value truncated; b6..b9 are the bytes at offsets 6..9.
FullSize(head) ==
    (head[7] % 128) * 2097152 + (head[8] % 128) * 16384 + (head[9] % 128) * 128
        + (head[10] % 128)

\* The number of bytes said to be dropped from the byte string.
DroppedBytes(audio_bytes) ==
    IF HasId3Header(audio_bytes) THEN 10 + FullSize(audio_bytes.head) ELSE 0

\* C15: parse_mp3_to_samples drops exactly the first 10 + size bytes of an
\* input of 10 bytes or more that starts with 0x49 0x44 0x33, size being the
\* four 7-bit groups of bytes 6..9 computed without truncation to 8 bits, and
\* drops nothing otherwise; every remaining byte b becomes (b - 128) / 128.
C15_Id3HeaderSkipped ==
    \A c \in Calls :
        "samples" \in DOMAIN frame[c] =>
            LET audio_bytes == frame[c].audio_bytes
                dropped     == DroppedBytes(audio_bytes)
                known       == Max(0, Len(audio_bytes.head) - dropped)
            IN  /\ frame[c].samples.len = Max(0, audio_bytes.len - dropped)
                /\ frame[c].samples.head
                        = [i \in 1..known |-> audio_bytes.head[dropped + i] - 128]


\* The messages of the AI branch that name a single indicator.
SingleIndicatorMessages ==
    {EXPLANATIONS.ai_stability, EXPLANATIONS.ai_spectral,
     EXPLANATIONS.ai_smooth, EXPLANATIONS.ai_consistent}

\* C16: a score of at least 0.55 from calculate_ai_probability comes with at
\* least 3 active indicators; so every AI_GENERATED result that is not
\* 'uncertain' carries the ai_combined explanation, and classify_voice never
\* returns ai_stability, ai_spectral, ai_smooth or ai_consistent.
C16_AiBranchNeedsThreeIndicators ==
    \A c \in Calls :
        /\ ("ai_score" \in DOMAIN frame[c] /\ 100 * frame[c].ai_score >= 55 * AiScale) =>
                ActiveIn(c) >= 3
        /\ HasResult(c) =>
                /\ (/\ frame[c].result.classification = "AI_GENERATED"
                    /\ frame[c].result.explanation # EXPLANATIONS.uncertain) =>
                        frame[c].result.explanation = EXPLANATIONS.ai_combined
                /\ frame[c].result.explanation \notin SingleIndicatorMessages

\* A dict with exactly 3 active indicators scored 0.55 or more and the result
\* is AI_GENERATED with the ai_combined explanation.
C16_Witness ==
    \E c \in Calls :
        /\ HasResult(c)
        /\ 100 * frame[c].ai_score >= 55 * AiScale
        /\ ActiveIn(c) = 3
        /\ frame[c].result.classification = "AI_GENERATED"
        /\ frame[c].result.explanation = EXPLANATIONS.ai_combined


\* C17: with no active indicator the AI score after the -0.1 penalty is below
\* 0.01, and classify_voice returns HUMAN with the human_natural explanation
\* and a confidenceScore of at least 0.98: never AI_GENERATED, never uncertain.
C17_NoIndicatorIsHuman ==
    \A c \in Calls :
        ("ai_score" \in DOMAIN frame[c] /\ ActiveIn(c) = 0) =>
            /\ 100 * frame[c].ai_score < AiScale
            /\ HasResult(c) =>
                    /\ frame[c].result.classification = "HUMAN"
                    /\ frame[c].result.explanation = EXPLANATIONS.human_natural
                    /\ frame[c].result.explanation # EXPLANATIONS.uncertain
                    /\ frame[c].result.confidenceScore >= 98

\* A result for a dict with no active indicator whose flatness and
\* micro-variation sit on their thresholds: the score stays above 0 after
\* the penalty and the confidenceScore is 0.98.
C17_Witness ==
    \E c \in Calls :
        /\ HasResult(c)
        /\ ActiveIn(c) = 0
        /\ Get(frame[c].features, "spectral_flatness", 50) = 15
        /\ Get(frame[c].features, "micro_variation", 50) = 30
        /\ frame[c].ai_score > 0
        /\ frame[c].result.classification = "HUMAN"
        /\ frame[c].result.confidenceScore = 98

=============================================================================
